---- MODULE Spec2Model ----
(***************************************************************************)
(* State-machine model of FHoudiniEngineRuntimeUtils                       *)
(* (HoudiniEngineRuntimeUtils.cpp) and of the token helpers of             *)
(* FHoudiniPackageParams (HoudiniPackageParams.h).                         *)
(*                                                                         *)
(* Four operations are modelled, each with its own specification:          *)
(*   SpecDelete  SafeDeleteObjects / SafeDeleteSingleObject                *)
(*   SpecCopy    CopyComponentProperties                                   *)
(*   SpecFind    FindActorsOfClassInBounds                                 *)
(*   SpecTokens  UpdateTokensFromParams / UpdateOutputPathTokens           *)
(* The host editor's own functions (reference gathering, object deletion,  *)
(* garbage collection, property reflection) are outside the repository;    *)
(* their results are drawn nondeterministically where the code reads them.  *)
(***************************************************************************)
EXTENDS Integers, Sequences, FiniteSets, TLC

\* ------------------------------------------------------------------ bounds
\* Longest input array handed to SafeDeleteObjects.
MaxBatch == 3

\* ------------------------------------------------------------- the universe
\* UObject pointers an input array can hold; NullObj is nullptr.
Objects == {"o1", "o2"}
NullObj == "nullptr"
ObjRefs == Objects \cup {NullObj}

\* UPackage pointers; NoPackage is nullptr.
Packages == {"P1", "P2"}
NoPackage == "nopackage"

\* What the host knows of a package: not valid, valid but only in memory,
\* or valid with a file on disk.
PackageStates == {"invalid", "memory", "disk"}


VARIABLES
    \* ---- SafeDeleteObjects: arguments and locals
    InObjectsToDelete,         \* TArray<UObject*>& (in/out)
    bHasOutList,               \* OutObjectsNotDeleted != nullptr
    OutObjectsNotDeleted,      \* the pointed-to array (unused when no list)
    NumDeleted,
    bGarbageCollectionRequired,
    PackagesToCleanUp,
    ProcessedObjects,
    pcDel,                     \* "idle" | "loop" | "done"
    retDel,                    \* value returned by SafeDeleteObjects
    \* ---- host state read by the deletion code
    validObjs,                 \* objects for which IsValid() holds
    pkgState,                  \* [Packages -> PackageStates]
    outermost,                 \* [Objects -> Packages]
    \* ---- history of the call (observations, not read by the code)
    InBatch,                   \* the input array as passed
    validInit,                 \* validObjs as the call began
    OutInit,                   \* the output list as passed
    attempts,                  \* [Objects -> Nat] SafeDeleteSingleObject calls
    hostCalls,                 \* [Objects -> Nat] DeleteSingleObject calls
    reportedRef,               \* objects reported bIsReferenced
    reportedUndo,              \* objects reported bIsReferencedByUndo
    singleTrue,                \* objects SafeDeleteSingleObject returned true for
    hostDeleted,               \* objects the host deleted
    gcCalls,                   \* number of CollectGarbage calls
    cleanupCalls               \* Seq of package sets given to CleanupAfterSuccessfulDelete

delVars == << InObjectsToDelete, bHasOutList, OutObjectsNotDeleted, NumDeleted,
              bGarbageCollectionRequired, PackagesToCleanUp, ProcessedObjects,
              pcDel, retDel, validObjs, pkgState, outermost, InBatch, validInit, OutInit, attempts,
              hostCalls, reportedRef, reportedUndo, singleTrue, hostDeleted,
              gcCalls, cleanupCalls >>


\* ----------------------------------------------- CopyComponentProperties
\* Number of properties on the component class's PropertyLink chain.
NumProps == 2

\* UActorComponent objects: the source, the target, the target's archetype
\* instances, and the class default object the target is based on.
Instances == {"I1", "I2", "I3"}
Components == {"S", "T", "CDO"} \cup Instances
\* The archetype of the topmost component default object is the default
\* object of UObject, which is no UActorComponent.
TopObject == "Default__Object"

\* AActor owners of components; NoOwner is nullptr.
NoOwner == "noowner"

\* Values a property can hold; only their equality is read.
Values == {"x", "y"}

\* Reflection data of one property, as read at lines 250-256, 276-287:
\* every filter flag alone, and none.
PlainProperty ==
    [ bTransient |-> FALSE, bComponent |-> FALSE, bUCSModified |-> FALSE,
      bTransform |-> FALSE, bEditOrInterp |-> TRUE,
      bDisableEditOnTemplate |-> FALSE, bCanCopy |-> TRUE ]

PropertyKinds ==
    { PlainProperty,
      [PlainProperty EXCEPT !.bTransient = TRUE],
      [PlainProperty EXCEPT !.bComponent = TRUE],
      [PlainProperty EXCEPT !.bUCSModified = TRUE],
      [PlainProperty EXCEPT !.bTransform = TRUE],
      [PlainProperty EXCEPT !.bEditOrInterp = FALSE],
      [PlainProperty EXCEPT !.bDisableEditOnTemplate = TRUE],
      [PlainProperty EXCEPT !.bCanCopy = FALSE] }

VARIABLES
    \* ---- Options.Flags
    bPreviewOnly,
    bPropagateChangesToArchetypeInstances,
    bOnlyCopyEditOrInterpProperties,
    bSkipInstanceOnlyProperties,
    bCallPostEditChangeProperty,
    \* ---- host state of the components
    ucsCreated,                \* instances for which IsCreatedByConstructionScript()
    owner,                     \* [Instances -> owners]: GetOwner()
    registered,                \* components for which IsRegistered()
    transactional,             \* objects carrying RF_Transactional
    \* ---- locals of the call
    PropIndex,                 \* properties of the PropertyLink chain done so far
    CopiedPropertyCount,
    ComponentInstancesToReregister,
    pcCopy,                    \* "idle" | "loop" | "next" | "fatal" | "done"
    retCopy,
    \* ---- the property of the last iteration
    Prop,                      \* its reflection data
    val0,                      \* [Components -> Values] as the iteration began
    val,                       \* [Components -> Values] as it ended
    events,                    \* host calls of the iteration, in order
    \* ---- history
    countBefore,               \* CopiedPropertyCount as the iteration began
    registered0                \* registered as the call began

copyVars == << bPreviewOnly, bPropagateChangesToArchetypeInstances,
               bOnlyCopyEditOrInterpProperties, bSkipInstanceOnlyProperties,
               bCallPostEditChangeProperty, ucsCreated, owner,
               registered, transactional, PropIndex, CopiedPropertyCount,
               ComponentInstancesToReregister, pcCopy, retCopy, Prop, val0, val,
               events, countBefore, registered0 >>

\* --------------------------------------------- FindActorsOfClassInBounds
\* Most actors in the world, and most boxes in BBoxes.
MaxActors == 2
MaxBoxes == 2

\* Actor classes and their super classes; "Actor" is the root.
ActorClasses == {"Actor", "StaticMeshActor", "MyMeshActor", "Light", "BP_Sky_Sphere_C"}

\* UClass::GetName() as a string of name pieces, so that FString::Contains
\* can be computed on it.
ClassName(c) ==
    CASE c = "BP_Sky_Sphere_C" -> << "BP_Sky_Sphere", "_C" >>
      [] OTHER -> << c >>

\* The literal of line 93.
SkySphereName == << "BP_Sky_Sphere" >>

\* FBox, along one axis.
Box(lo, hi) == [ Min |-> lo, Max |-> hi ]
QueryBoxes == { Box(0, 1), Box(1, 3) }
ActorBoxes == { Box(3, 4), Box(5, 6) }

\* An actor the iterator yields: one that is not valid (its class and bounds
\* are never read), or a valid one of some class with some bounds.
InvalidActor == [ bValid |-> FALSE, cls |-> "Actor", bounds |-> Box(0, 0) ]
ActorStates ==
    {InvalidActor} \cup
    [ bValid : {TRUE},
      cls : {"StaticMeshActor", "MyMeshActor", "Light", "BP_Sky_Sphere_C"},
      bounds : ActorBoxes ]

VARIABLES
    bWorldValid,               \* IsValid(World)
    WorldActors,               \* the actors TActorIterator yields, in order;
                               \* an actor is named by its position
    ActorType,
    BBoxes,
    bHasExclude,               \* ExcludeActors != nullptr
    ExcludeActors,             \* the pointed-to array, as a set of actors
    OutActors,
    OutActors0,                \* OutActors as passed
    pcFind,                    \* "idle" | "call" | "done"
    retFind

findVars == << bWorldValid, WorldActors, ActorType, BBoxes, bHasExclude,
               ExcludeActors, OutActors, OutActors0, pcFind, retFind >>

\* ------------------------------------------------- FHoudiniPackageParams
PackageModes == {"CookToLevel", "CookToTemp", "Bake"}

\* FString values, as strings of pieces; "/" and "\\" are the only pieces
\* FPaths takes for separators.
TempFolders == { << "/", "Game", "/", "HoudiniEngine", "/", "Temp" >>,
                 << "/", "Game", "/", "Temp", "/" >>,
                 << "Temp" >> }
BakeFolders == { << "/", "Game", "/", "HoudiniEngine", "/", "Bake" >>,
                 << "/", "Game", "\\", "Bake" >>,
                 << >> }
WorldPaths == { << "/", "Game", "/", "Maps", "/", "Level", ".", "Level" >>,
                << "/", "Temp", "/", "Untitled" >> }

\* Token maps a caller may pass in.
PriorTokens ==
    { [ k \in {} |-> << >> ],
      [ k \in {"pkg"} |-> << "/", "Game", "/", "Old" >> ],
      [ k \in {"temp", "out_basepath", "bake"} |-> << "stale" >> ],
      [ k \in {"guid", "unrelated"} |-> << "stale" >> ] }

VARIABLES
    PackageMode,
    TempCookFolder,
    BakeFolder,
    ObjectName,
    HoudiniAssetName,
    HoudiniAssetActorName,
    ObjectId, GeoId, PartId,
    SplitStr,
    ComponentGUID,
    PDGTOPNetworkName, PDGTOPNodeName, PDGWorkItemIndex,
    WorldPathName,             \* WorldContext->GetPathName()
    OutTokens,                 \* TMap<FString, ValueT>&
    OutTokens0,                \* OutTokens as passed
    pcTok,                     \* "idle" | "call" | "done"
    calledTok,                 \* the function that ran
    InPackageMode              \* the mode UpdateOutputPathTokens was given

tokVars == << PackageMode, TempCookFolder, BakeFolder, ObjectName, HoudiniAssetName,
              HoudiniAssetActorName, ObjectId, GeoId, PartId, SplitStr, ComponentGUID,
              PDGTOPNetworkName, PDGTOPNodeName, PDGWorkItemIndex, WorldPathName,
              OutTokens, OutTokens0, pcTok, calledTok, InPackageMode >>

vars == << delVars, copyVars, findVars, tokVars >>

\* ------------------------------------------------------------------ helpers
SeqsUpTo(S, n) == UNION { [1..k -> S] : k \in 0..n }

Range(s) == { s[i] : i \in 1..Len(s) }

\* TArray::Pop(): removes and returns the last element.
Last(s) == s[Len(s)]
Front(s) == SubSeq(s, 1, Len(s) - 1)

\* UObject::GetOutermost() of each object: outermost is host state,
\* [Objects -> Packages]; two objects may share a package.
GetOutermost(o) == outermost[o]

\* IsValid(UObject*): non-null and not pending kill.
IsValid(o) == o # NullObj /\ o \in validObjs

\* ===================================================== SafeDeleteSingleObject
\* The test of lines 127-136: DeleteSingleObject is called unless the gathered
\* bIsReferenced is set. bIsReferencedByUndo is gathered but not tested.
ShouldCallDelete_NoCheck(bIsReferenced, bIsReferencedByUndo) == TRUE

ShouldCallDelete(bIsReferenced, bIsReferencedByUndo) == ~bIsReferenced

NotDeleted(bCalled) ==
    [ bDeleted |-> FALSE, OutPackage |-> NoPackage,
      bOutPackageIsInMemoryOnly |-> FALSE, bCalledDelete |-> bCalled ]

\* The test of line 143: the package is not valid, or no file exists for it.
PackageIsInMemoryOnly_InvalidOnly(pkg) == pkgState[pkg] = "invalid"

PackageIsInMemoryOnly(pkg) == pkgState[pkg] # "disk"

\* bGatherOK, bIsReferenced, bIsReferencedByUndo: results of
\* GatherObjectReferencersForDeletion; bHostDeletes: what DeleteSingleObject
\* (called with bCheckForReferences = true) would return.
\* bCalledDelete records whether DeleteSingleObject was invoked.
SafeDeleteSingleObject(o, bGatherOK, bIsReferenced, bIsReferencedByUndo, bHostDeletes) ==
    IF ~IsValid(o) THEN NotDeleted(FALSE)
    ELSE IF ~bGatherOK THEN NotDeleted(FALSE)
    ELSE IF ~ShouldCallDelete(bIsReferenced, bIsReferencedByUndo) THEN NotDeleted(FALSE)
    ELSE IF ~bHostDeletes THEN NotDeleted(TRUE)
    ELSE LET pkg == GetOutermost(o) IN
         [ bDeleted |-> TRUE, OutPackage |-> pkg,
           bOutPackageIsInMemoryOnly |-> PackageIsInMemoryOnly(pkg),
           bCalledDelete |-> TRUE ]

\* ========================================================== SafeDeleteObjects
\* Line 173: the duplicate test against the set of objects already popped.
AlreadyProcessed_Never(o) == FALSE

AlreadyProcessed(o) == o \in ProcessedObjects

\* Lines 198-201: a failed deletion is appended to the caller's list, if any.
ReportNotDeleted_Drop(list, o) == list

ReportNotDeleted(list, o) == IF bHasOutList THEN Append(list, o) ELSE list

\* Line 205: the direct collection runs only when no package awaits cleanup.
ShouldCollectGarbage_Always(bRequired, pkgs) == bRequired

ShouldCollectGarbage(bRequired, pkgs) == bRequired /\ Cardinality(pkgs) <= 0

InitDelete ==
    /\ InObjectsToDelete \in SeqsUpTo(ObjRefs, MaxBatch)
    /\ InBatch = InObjectsToDelete
    /\ bHasOutList \in BOOLEAN
    /\ OutObjectsNotDeleted \in (IF bHasOutList THEN {<<>>, <<"o1">>} ELSE {<<>>})
    /\ OutInit = OutObjectsNotDeleted
    /\ NumDeleted = 0
    /\ bGarbageCollectionRequired = FALSE
    /\ PackagesToCleanUp = {}
    /\ ProcessedObjects = {}
    /\ pcDel = "loop"
    /\ retDel = -1
    /\ validObjs \in SUBSET Objects
    /\ validInit = validObjs
    /\ pkgState \in [Packages -> PackageStates]
    /\ outermost \in { f \in [Objects -> Packages] : f["o1"] = "P1" }
    /\ attempts = [o \in Objects |-> 0]
    /\ hostCalls = [o \in Objects |-> 0]
    /\ reportedRef = {}
    /\ reportedUndo = {}
    /\ singleTrue = {}
    /\ hostDeleted = {}
    /\ gcCalls = 0
    /\ cleanupCalls = <<>>

\* The call touches nothing of the other operations' state.
DeleteOnly == UNCHANGED << copyVars, findVars, tokVars >>

histUnchanged == UNCHANGED << attempts, hostCalls, reportedRef, reportedUndo,
                              singleTrue, hostDeleted, gcCalls, cleanupCalls >>

\* Lines 171-174: the popped object was already processed.
SkipProcessed ==
    /\ pcDel = "loop"
    /\ Len(InObjectsToDelete) > 0
    /\ AlreadyProcessed(Last(InObjectsToDelete))
    /\ InObjectsToDelete' = Front(InObjectsToDelete)
    /\ UNCHANGED << bHasOutList, OutObjectsNotDeleted, NumDeleted,
                    bGarbageCollectionRequired, PackagesToCleanUp, ProcessedObjects,
                    pcDel, retDel, validObjs, pkgState, outermost, InBatch, validInit, OutInit >>
    /\ histUnchanged
    /\ DeleteOnly

\* Lines 171-179: the popped object is new but not valid.
SkipInvalid ==
    /\ pcDel = "loop"
    /\ Len(InObjectsToDelete) > 0
    /\ LET o == Last(InObjectsToDelete) IN
        /\ ~AlreadyProcessed(o)
        /\ ~IsValid(o)
        /\ ProcessedObjects' = ProcessedObjects \cup {o}
    /\ InObjectsToDelete' = Front(InObjectsToDelete)
    /\ UNCHANGED << bHasOutList, OutObjectsNotDeleted, NumDeleted,
                    bGarbageCollectionRequired, PackagesToCleanUp,
                    pcDel, retDel, validObjs, pkgState, outermost, InBatch, validInit, OutInit >>
    /\ histUnchanged
    /\ DeleteOnly

\* Lines 171-201: the popped object is new and valid; SafeDeleteSingleObject
\* runs on it and its result is booked.
DeleteObject ==
    /\ pcDel = "loop"
    /\ Len(InObjectsToDelete) > 0
    /\ LET o == Last(InObjectsToDelete) IN
        /\ ~AlreadyProcessed(o)
        /\ IsValid(o)
        /\ ProcessedObjects' = ProcessedObjects \cup {o}
        /\ \E bGatherOK \in BOOLEAN, bRef \in BOOLEAN, bUndo \in BOOLEAN, bHost \in BOOLEAN :
            LET r == SafeDeleteSingleObject(o, bGatherOK, bRef, bUndo, bHost) IN
            \* undetermined outputs of calls that were not made are fixed to FALSE
            /\ (~bGatherOK => ~bRef /\ ~bUndo)
            /\ (~r.bCalledDelete => ~bHost)
            /\ attempts' = [attempts EXCEPT ![o] = @ + 1]
            /\ hostCalls' = [hostCalls EXCEPT ![o] = @ + (IF r.bCalledDelete THEN 1 ELSE 0)]
            /\ reportedRef' = reportedRef \cup (IF bRef THEN {o} ELSE {})
            /\ reportedUndo' = reportedUndo \cup (IF bUndo THEN {o} ELSE {})
            /\ hostDeleted' = hostDeleted \cup (IF r.bCalledDelete /\ bHost THEN {o} ELSE {})
            /\ validObjs' = validObjs \ (IF r.bCalledDelete /\ bHost THEN {o} ELSE {})
            /\ singleTrue' = singleTrue \cup (IF r.bDeleted THEN {o} ELSE {})
            /\ IF r.bDeleted
               THEN /\ NumDeleted' = NumDeleted + 1
                    /\ IF r.bOutPackageIsInMemoryOnly
                       THEN /\ bGarbageCollectionRequired' = TRUE
                            /\ UNCHANGED PackagesToCleanUp
                       ELSE /\ PackagesToCleanUp' = PackagesToCleanUp \cup {r.OutPackage}
                            /\ UNCHANGED bGarbageCollectionRequired
                    /\ UNCHANGED OutObjectsNotDeleted
               ELSE /\ OutObjectsNotDeleted' = ReportNotDeleted(OutObjectsNotDeleted, o)
                    /\ UNCHANGED << NumDeleted, bGarbageCollectionRequired, PackagesToCleanUp >>
    /\ InObjectsToDelete' = Front(InObjectsToDelete)
    /\ UNCHANGED << bHasOutList, pcDel, retDel, pkgState, outermost, InBatch, validInit, OutInit,
                    gcCalls, cleanupCalls >>
    /\ DeleteOnly

\* Lines 204-211: after the loop, one collection pass at most, then return.
FinishDelete ==
    /\ pcDel = "loop"
    /\ Len(InObjectsToDelete) = 0
    /\ gcCalls' = gcCalls +
          (IF ShouldCollectGarbage(bGarbageCollectionRequired, PackagesToCleanUp) THEN 1 ELSE 0)
    /\ cleanupCalls' =
          IF Cardinality(PackagesToCleanUp) > 0
          THEN Append(cleanupCalls, PackagesToCleanUp)
          ELSE cleanupCalls
    /\ retDel' = NumDeleted
    /\ pcDel' = "done"
    /\ UNCHANGED << InObjectsToDelete, bHasOutList, OutObjectsNotDeleted, NumDeleted,
                    bGarbageCollectionRequired, PackagesToCleanUp, ProcessedObjects,
                    validObjs, pkgState, outermost, InBatch, validInit, OutInit, attempts, hostCalls,
                    reportedRef, reportedUndo, singleTrue, hostDeleted >>
    /\ DeleteOnly

NextDelete ==
    \/ SkipProcessed
    \/ SkipInvalid
    \/ DeleteObject
    \/ FinishDelete


\* ==================================================== CopyComponentProperties
\* UObject::GetArchetype(): the source, I1 and I2 are based on the target
\* directly, I3 on I1; the target is based on the class default object.
Archetype(c) ==
    CASE c \in {"S", "I1", "I2"} -> "T"
      [] c = "I3" -> "I1"
      [] c = "T" -> "CDO"
      [] OTHER -> TopObject

\* TargetComponent->GetArchetypeInstances(Instances), line 231: every
\* component based on the target, the source among them.
GetArchetypeInstances == << "I1", "S", "I2", "I3" >>

\* Lines 226-240: the instances kept for propagation.
KeepInstance(c) == c # "S" /\ c # "T"

ComponentArchetypeInstances ==
    IF bPropagateChangesToArchetypeInstances
    THEN SelectSeq(GetArchetypeInstances, KeepInstance)
    ELSE << >>

\* Lines 279-280.
IsSafeToCopy(P) ==
    /\ (~bOnlyCopyEditOrInterpProperties \/ P.bEditOrInterp)
    /\ (~bSkipInstanceOnlyProperties \/ ~P.bDisableEditOnTemplate)

\* Lines 276-290: the tests a property passes before it is copied or counted.
PassesCopyFilters_IgnoreTransient(P, bIsIdentical) ==
    /\ ~bIsIdentical
    /\ ~P.bComponent
    /\ ~P.bUCSModified
    /\ ~P.bTransform
    /\ IsSafeToCopy(P)
    /\ P.bCanCopy

PassesCopyFilters(P, bIsIdentical) ==
    /\ ~P.bTransient
    /\ ~bIsIdentical
    /\ ~P.bComponent
    /\ ~P.bUCSModified
    /\ ~P.bTransform
    /\ IsSafeToCopy(P)
    /\ P.bCanCopy

\* Lines 316-328: the walk up the archetypes of an instance whose direct
\* archetype is not the target. "add": the loop ended with bAdd still set;
\* "skip": an archetype differed from the target; "fatal": CastChecked met an
\* archetype that is no UActorComponent.
RECURSIVE WalkArchetypes(_, _, _)
WalkArchetypes(check, inst, v) ==
    IF check = inst THEN "add"
    ELSE IF v[check] # v["T"] THEN "skip"
    ELSE IF Archetype(check) \notin Components THEN "fatal"
    ELSE WalkArchetypes(Archetype(check), inst, v)

\* Line 312: the instance holds the target's value (before the copy).
MatchesTarget_Always(inst, v) == TRUE

MatchesTarget(inst, v) == v[inst] = v["T"]

\* Lines 312-334 for one instance: "add", "skip" or "fatal".
CheckInstance(inst, v) ==
    IF ~MatchesTarget(inst, v) THEN "skip"
    ELSE IF Archetype(inst) = "T" THEN "add"
    ELSE WalkArchetypes(Archetype(inst), inst, v)

\* Lines 307-336: ComponentArchetypeInstancesToChange, or the fatal error hit
\* while building it.
RECURSIVE InstancesToChange(_, _, _, _)
InstancesToChange(list, k, v, acc) ==
    IF k > Len(list) THEN [ fatal |-> FALSE, list |-> acc ]
    ELSE LET r == CheckInstance(list[k], v) IN
         IF r = "fatal" THEN [ fatal |-> TRUE, list |-> acc ]
         ELSE InstancesToChange(list, k + 1, v,
                                IF r = "add" THEN Append(acc, list[k]) ELSE acc)

\* Lines 294-304: the target is recorded for undo, then told of the change.
\* A state of the iteration: the calls made so far, the iteration's
\* ModifiedObjects set, and the host state they act on.
BeginCopy(st) ==
    LET a == [ st EXCEPT !.events = @ \o << <<"SetFlags", "T">>, <<"Modify", "T">> >>,
                         !.ModifiedObjects = @ \cup {"T"},
                         !.transactional = @ \cup {"T"} ]
    IN IF bCallPostEditChangeProperty
       THEN [ a EXCEPT !.events = Append(@, <<"PreEditChange", "T">>) ]
       ELSE a

\* Lines 338-344: the copy onto the target.
CopyToTarget(st) ==
    LET a == [ st EXCEPT !.val["T"] = st.val["S"],
                         !.events = Append(@, <<"Write", "T">>) ]
    IN IF bCallPostEditChangeProperty
       THEN [ a EXCEPT !.events = Append(@, <<"PostEditChangeProperty", "T">>) ]
       ELSE a

\* Lines 353-371: an instance about to be overwritten is recorded for undo,
\* unless the construction script made it; its owner is recorded too.
RecordForUndo_Nothing(inst, st) == st

RecordForUndo(inst, st) ==
    IF inst \in st.ModifiedObjects THEN st
    ELSE LET a == IF inst \notin ucsCreated
                  THEN [ st EXCEPT !.events = @ \o << <<"SetFlags", inst>>, <<"Modify", inst>> >>,
                                   !.ModifiedObjects = @ \cup {inst},
                                   !.transactional = @ \cup {inst} ]
                  ELSE st
         IN IF owner[inst] # NoOwner /\ owner[inst] \notin a.ModifiedObjects
            THEN [ a EXCEPT !.events = Append(@, <<"Modify", owner[inst]>>),
                            !.ModifiedObjects = @ \cup {owner[inst]} ]
            ELSE a

\* Lines 373-377: a registered instance is unregistered and noted.
UnregisterForCopy_AlwaysNote(inst, st) ==
    [ st EXCEPT !.events = Append(@, <<"UnregisterComponent", inst>>),
                !.registered = @ \ {inst},
                !.reregister = Append(@, inst) ]

UnregisterForCopy(inst, st) ==
    IF inst \in st.registered
    THEN [ st EXCEPT !.events = Append(@, <<"UnregisterComponent", inst>>),
                     !.registered = @ \ {inst},
                     !.reregister = Append(@, inst) ]
    ELSE st

\* Line 379: the copy from the target onto the instance.
CopyToInstance(inst, st) ==
    [ st EXCEPT !.val[inst] = st.val["T"],
                !.events = Append(@, <<"Write", inst>>) ]

\* Lines 346-382: the propagation loop.
RECURSIVE PropagateToInstances(_, _, _)
PropagateToInstances(list, k, st) ==
    IF k > Len(list) THEN st
    ELSE PropagateToInstances(list, k + 1,
             CopyToInstance(list[k], UnregisterForCopy(list[k], RecordForUndo(list[k], st))))

\* The iteration's state as it begins: a fresh ModifiedObjects (line 273).
IterationStart(v) ==
    [ events |-> << >>, ModifiedObjects |-> {}, val |-> v,
      registered |-> registered, reregister |-> ComponentInstancesToReregister,
      transactional |-> transactional ]

\* Values an iteration may find. The code reads the values of the instances
\* and of their archetypes only while it propagates a property that passed
\* the filters; values it does not read are left equal to the target's.
\* Only the equality of two values is ever read, so the source's is fixed.
ComponentValues == { v \in [Components -> Values] : v["S"] = "x" }

ValuesOfSourceAndTarget ==
    { v \in ComponentValues : \A c \in Components \ {"S", "T"} : v[c] = v["T"] }

\* The call propagates: the only case in which the code reads the
\* instances' values, owners, origin and registration.
Propagating == bPropagateChangesToArchetypeInstances /\ ~bPreviewOnly

ValuesRead == IF Propagating THEN ComponentValues ELSE ValuesOfSourceAndTarget

InitCopy ==
    /\ bPreviewOnly \in BOOLEAN
    /\ bPropagateChangesToArchetypeInstances \in BOOLEAN
    /\ bOnlyCopyEditOrInterpProperties \in BOOLEAN
    /\ bSkipInstanceOnlyProperties \in BOOLEAN
    /\ bCallPostEditChangeProperty \in BOOLEAN
    /\ ucsCreated \in (IF Propagating THEN SUBSET Instances ELSE {{}})
    /\ owner \in { f \in [Instances -> {"A1", "A2", NoOwner}] :
                     /\ f["I1"] = "A1" /\ f["I3"] = "A2"
                     /\ f["I2"] \in (IF Propagating THEN {"A1", NoOwner} ELSE {"A1"}) }
    /\ registered \in (IF Propagating
                         THEN { r \cup {"I3"} : r \in SUBSET {"I1", "I2"} }
                         ELSE {Instances})
    /\ registered0 = registered
    /\ transactional = {}
    /\ PropIndex = 0
    /\ CopiedPropertyCount = 0
    /\ countBefore = 0
    /\ ComponentInstancesToReregister = << >>
    /\ pcCopy = "loop"
    /\ retCopy = -1
    /\ Prop = PlainProperty
    /\ val0 = [c \in Components |-> "x"]
    /\ val = val0
    /\ events = << >>

\* The call touches nothing of the other operations' state.
CopyOnly == UNCHANGED << delVars, findVars, tokVars >>

optVarsUnchanged ==
    UNCHANGED << bPreviewOnly, bPropagateChangesToArchetypeInstances,
                 bOnlyCopyEditOrInterpProperties, bSkipInstanceOnlyProperties,
                 bCallPostEditChangeProperty, ucsCreated, owner,
                 registered0 >>

\* Lines 248-277, 279-290: a property that fails a filter is left alone.
FilterProperty ==
    /\ pcCopy = "loop"
    /\ PropIndex < NumProps
    /\ \E P \in PropertyKinds, v \in ValuesOfSourceAndTarget :
        /\ ~PassesCopyFilters(P, v["S"] = v["T"])
        /\ Prop' = P
        /\ val0' = v
        /\ val' = v
    /\ events' = << >>
    /\ pcCopy' = "next"
    /\ countBefore' = CopiedPropertyCount
    /\ UNCHANGED << CopiedPropertyCount, registered, transactional,
                    ComponentInstancesToReregister, PropIndex, retCopy >>
    /\ optVarsUnchanged
    /\ CopyOnly

\* Lines 248-292, 385: previewing, a property that passes is only counted.
PreviewProperty ==
    /\ pcCopy = "loop"
    /\ PropIndex < NumProps
    /\ bPreviewOnly
    /\ \E P \in PropertyKinds, v \in ValuesRead :
        /\ PassesCopyFilters(P, v["S"] = v["T"])
        /\ Prop' = P
        /\ val0' = v
        /\ val' = v
    /\ events' = << >>
    /\ pcCopy' = "next"
    /\ countBefore' = CopiedPropertyCount
    /\ CopiedPropertyCount' = CopiedPropertyCount + 1
    /\ UNCHANGED << registered, transactional,
                    ComponentInstancesToReregister, PropIndex, retCopy >>
    /\ optVarsUnchanged
    /\ CopyOnly

\* Lines 248-385: a property that passes is copied onto the target and onto
\* the instances chosen for it, then counted.
CopyProperty ==
    /\ pcCopy = "loop"
    /\ PropIndex < NumProps
    /\ ~bPreviewOnly
    /\ \E P \in PropertyKinds, v \in ValuesRead :
        /\ PassesCopyFilters(P, v["S"] = v["T"])
        /\ LET st1 == BeginCopy(IterationStart(v))
               chosen == InstancesToChange(ComponentArchetypeInstances, 1, v, << >>)
               st2 == PropagateToInstances(chosen.list, 1, CopyToTarget(st1))
           IN /\ ~chosen.fatal
              /\ Prop' = P
              /\ val0' = v
              /\ val' = st2.val
              /\ events' = st2.events
              /\ registered' = st2.registered
              /\ transactional' = st2.transactional
              /\ ComponentInstancesToReregister' = st2.reregister
    /\ pcCopy' = "next"
    /\ countBefore' = CopiedPropertyCount
    /\ CopiedPropertyCount' = CopiedPropertyCount + 1
    /\ UNCHANGED << PropIndex, retCopy >>
    /\ optVarsUnchanged
    /\ CopyOnly

\* Lines 294-326: the archetype walk of some instance runs off the top of the
\* archetype chain and CastChecked stops the editor; nothing was copied yet
\* for this property.
FatalInWalk ==
    /\ pcCopy = "loop"
    /\ PropIndex < NumProps
    /\ ~bPreviewOnly
    /\ \E P \in PropertyKinds, v \in ValuesRead :
        /\ PassesCopyFilters(P, v["S"] = v["T"])
        /\ LET st1 == BeginCopy(IterationStart(v))
               chosen == InstancesToChange(ComponentArchetypeInstances, 1, v, << >>)
           IN /\ chosen.fatal
              /\ Prop' = P
              /\ val0' = v
              /\ val' = st1.val
              /\ events' = st1.events
              /\ transactional' = st1.transactional
    /\ pcCopy' = "fatal"
    /\ countBefore' = CopiedPropertyCount
    /\ UNCHANGED << CopiedPropertyCount, registered,
                    ComponentInstancesToReregister, PropIndex, retCopy >>
    /\ optVarsUnchanged
    /\ CopyOnly

\* Line 248: Property = Property->PropertyLinkNext; the iteration's locals
\* go out of scope.
AdvanceProperty ==
    /\ pcCopy = "next"
    /\ pcCopy' = "loop"
    /\ PropIndex' = PropIndex + 1
    /\ Prop' = PlainProperty
    /\ val0' = [c \in Components |-> "x"]
    /\ val' = [c \in Components |-> "x"]
    /\ events' = << >>
    /\ countBefore' = CopiedPropertyCount
    /\ UNCHANGED << CopiedPropertyCount, registered, transactional,
                    ComponentInstancesToReregister, retCopy >>
    /\ optVarsUnchanged
    /\ CopyOnly

\* Lines 395-400: the unregistered instances are registered again and the
\* count is returned.
FinishCopy ==
    /\ pcCopy = "loop"
    /\ PropIndex = NumProps
    /\ registered' = registered \cup
          { ComponentInstancesToReregister[i] : i \in 1..Len(ComponentInstancesToReregister) }
    /\ retCopy' = CopiedPropertyCount
    /\ pcCopy' = "done"
    /\ events' = [ i \in 1..Len(ComponentInstancesToReregister) |->
                      <<"RegisterComponent", ComponentInstancesToReregister[i]>> ]
    /\ UNCHANGED << transactional, PropIndex, CopiedPropertyCount,
                    ComponentInstancesToReregister, Prop, val0, val, countBefore >>
    /\ optVarsUnchanged
    /\ CopyOnly

NextCopy ==
    \/ FilterProperty
    \/ PreviewProperty
    \/ CopyProperty
    \/ FatalInWalk
    \/ AdvanceProperty
    \/ FinishCopy

\* ================================================== FindActorsOfClassInBounds
\* UClass::GetSuperClass(); the root has none.
SuperClass(c) ==
    CASE c = "MyMeshActor" -> "StaticMeshActor"
      [] c \in {"StaticMeshActor", "Light", "BP_Sky_Sphere_C"} -> "Actor"
      [] OTHER -> "None"

\* UClass::IsChildOf(): the class itself or one of its super classes.
RECURSIVE IsChildOf(_, _)
IsChildOf(c, base) ==
    IF c = base THEN TRUE
    ELSE IF c \notin ActorClasses \/ SuperClass(c) = "None" THEN FALSE
    ELSE IsChildOf(SuperClass(c), base)

\* FString::Contains(): the pattern occurs as a substring.
Contains(str, pat) ==
    \E i \in 1..(Len(str) - Len(pat) + 1) : SubSeq(str, i, i + Len(pat) - 1) = pat

\* FBox::Intersect(), line 100: false when the boxes are apart on the axis.
Intersect_Inside(a, b) == a.Min >= b.Min /\ a.Max <= b.Max

Intersect(a, b) ==
    IF (a.Min > b.Max) \/ (b.Min > a.Max) THEN FALSE ELSE TRUE

\* Lines 97-105: the actor's bounds meet one of the boxes.
IntersectsAny(bounds) == \E i \in 1..Len(BBoxes) : Intersect(bounds, BBoxes[i])

\* Lines 81-94: the tests an actor passes before its bounds are looked at.
IsCandidate(a) ==
    /\ WorldActors[a].bValid
    /\ IsChildOf(WorldActors[a].cls, ActorType)
    /\ ~(bHasExclude /\ a \in ExcludeActors)
    /\ ~Contains(ClassName(WorldActors[a].cls), SkySphereName)

\* Lines 78-106: the loop over the world's actors, from actor a on.
RECURSIVE CollectActors(_, _)
CollectActors(a, out) ==
    IF a > Len(WorldActors) THEN out
    ELSE CollectActors(a + 1,
             IF IsCandidate(a) /\ IntersectsAny(WorldActors[a].bounds)
             THEN Append(out, a) ELSE out)

InitFind ==
    /\ bWorldValid \in BOOLEAN
    /\ WorldActors \in SeqsUpTo(ActorStates, MaxActors)
    /\ ActorType \in {"Actor", "StaticMeshActor"}
    /\ BBoxes \in SeqsUpTo(QueryBoxes, MaxBoxes)
    /\ bHasExclude \in BOOLEAN
    /\ ExcludeActors \in (IF bHasExclude THEN SUBSET (1..Len(WorldActors)) ELSE {{}})
    /\ OutActors \in {<< >>, << 1 >>}
    /\ OutActors0 = OutActors
    /\ pcFind = "call"
    /\ retFind = FALSE

FindOnly == UNCHANGED << delVars, copyVars, tokVars >>

\* Lines 74-75: the world is not valid.
FindInInvalidWorld ==
    /\ pcFind = "call"
    /\ ~bWorldValid
    /\ retFind' = FALSE
    /\ pcFind' = "done"
    /\ UNCHANGED << bWorldValid, WorldActors, ActorType, BBoxes, bHasExclude,
                    ExcludeActors, OutActors, OutActors0 >>
    /\ FindOnly

\* Lines 77-108: the world is valid.
FindInWorld ==
    /\ pcFind = "call"
    /\ bWorldValid
    /\ OutActors' = CollectActors(1, << >>)
    /\ retFind' = TRUE
    /\ pcFind' = "done"
    /\ UNCHANGED << bWorldValid, WorldActors, ActorType, BBoxes, bHasExclude,
                    ExcludeActors, OutActors0 >>
    /\ FindOnly

NextFind ==
    \/ FindInInvalidWorld
    \/ FindInWorld

\* ====================================================== FHoudiniPackageParams
IsSlashOrBackslash(ch) == ch = "/" \/ ch = "\\"

\* FPaths::GetPath(): what precedes the last separator, or the empty string
\* when there is none.
GetPath(path) ==
    LET seps == { i \in 1..Len(path) : IsSlashOrBackslash(path[i]) } IN
    IF seps = {} THEN << >>
    ELSE LET Pos == CHOOSE i \in seps : \A j \in seps : j <= i
         IN SubSeq(path, 1, Pos - 1)

\* FString::FromInt(): the decimal digits, with a sign when negative.
Digit(d) == << "0", "1", "2", "3", "4", "5", "6", "7", "8", "9" >>[d + 1]

RECURSIVE NatToString(_)
NatToString(n) ==
    IF n < 10 THEN << Digit(n) >>
    ELSE Append(NatToString(n \div 10), Digit(n % 10))

FromInt(n) == IF n < 0 THEN << "-" >> \o NatToString(-n) ELSE NatToString(n)

\* TMap::Add(): sets the key, replacing a value already there.
Add(map, key, value) ==
    [ k \in (DOMAIN map) \cup {key} |-> IF k = key THEN value ELSE map[k] ]

\* GetPackagePath(): the mode-selected folder, plus the HDA's name.
GetPackagePath ==
    LET folder == IF PackageMode = "Bake" THEN BakeFolder ELSE TempCookFolder
    IN folder \o << "/" >> \o HoudiniAssetName

\* Lines 223-232: the folder out_basepath is taken from, by mode.
OutBasePathFolder_AlwaysTemp(mode) == TempCookFolder

OutBasePathFolder(mode) ==
    CASE mode \in {"CookToTemp", "CookToLevel"} -> TempCookFolder
      [] mode = "Bake" -> BakeFolder

\* Lines 212-235.
UpdateOutputPathTokens(mode, tokens) ==
    LET PackagePath == GetPackagePath
        t1 == Add(tokens, "temp", GetPath(TempCookFolder))
        t2 == Add(t1, "bake", GetPath(BakeFolder))
        t3 == Add(t2, "out_basepath", GetPath(OutBasePathFolder(mode)))
    IN Add(t3, "out", GetPath(PackagePath))

\* Lines 198-209: the tokens added after the output path tokens, in order.
ParamTokens ==
    << << "world", GetPath(WorldPathName) >>,
       << "object_name", ObjectName >>,
       << "object_id", FromInt(ObjectId) >>,
       << "geo_id", FromInt(GeoId) >>,
       << "part_id", FromInt(PartId) >>,
       << "split_str", SplitStr >>,
       << "hda_name", HoudiniAssetName >>,
       << "hda_actor_name", HoudiniAssetActorName >>,
       << "pdg_topnet_name", PDGTOPNetworkName >>,
       << "pdg_topnode_name", PDGTOPNodeName >>,
       << "pdg_workitem_index", FromInt(PDGWorkItemIndex) >>,
       << "guid", ComponentGUID >> >>

RECURSIVE AddAll(_, _, _)
AddAll(tokens, pairs, k) ==
    IF k > Len(pairs) THEN tokens
    ELSE AddAll(Add(tokens, pairs[k][1], pairs[k][2]), pairs, k + 1)

\* Lines 190-210.
UpdateTokensFromParams(tokens) ==
    AddAll(UpdateOutputPathTokens(PackageMode, tokens), ParamTokens, 1)

InitTokens ==
    /\ PackageMode \in PackageModes
    /\ TempCookFolder \in TempFolders
    /\ BakeFolder \in BakeFolders
    /\ ObjectName \in { << >>, << "rock" >> }
    /\ HoudiniAssetName = << "my_hda" >>
    /\ HoudiniAssetActorName = << "my_hda", "_", "1" >>
    /\ ObjectId \in { -1, 0, 12 }
    /\ GeoId = 0
    /\ PartId = 3
    /\ SplitStr = << "main" >>
    /\ ComponentGUID = << "0A1B" >>
    /\ PDGTOPNetworkName = << "topnet1" >>
    /\ PDGTOPNodeName = << "node1" >>
    /\ PDGWorkItemIndex = 105
    /\ WorldPathName \in WorldPaths
    /\ OutTokens \in PriorTokens
    /\ OutTokens0 = OutTokens
    /\ pcTok = "call"
    /\ calledTok = "none"
    /\ InPackageMode = PackageMode

TokensOnly == UNCHANGED << delVars, copyVars, findVars >>

paramsUnchanged ==
    UNCHANGED << PackageMode, TempCookFolder, BakeFolder, ObjectName, HoudiniAssetName,
                 HoudiniAssetActorName, ObjectId, GeoId, PartId, SplitStr, ComponentGUID,
                 PDGTOPNetworkName, PDGTOPNodeName, PDGWorkItemIndex, WorldPathName,
                 OutTokens0 >>

\* A caller populates its map from the params (both functions are const).
CallUpdateTokensFromParams ==
    /\ pcTok = "call"
    /\ OutTokens' = UpdateTokensFromParams(OutTokens)
    /\ calledTok' = "UpdateTokensFromParams"
    /\ pcTok' = "done"
    /\ UNCHANGED InPackageMode
    /\ paramsUnchanged
    /\ TokensOnly

\* A caller asks for the output path tokens of a mode of its choice.
CallUpdateOutputPathTokens ==
    /\ pcTok = "call"
    /\ \E mode \in PackageModes :
        /\ InPackageMode' = mode
        /\ OutTokens' = UpdateOutputPathTokens(mode, OutTokens)
    /\ calledTok' = "UpdateOutputPathTokens"
    /\ pcTok' = "done"
    /\ paramsUnchanged
    /\ TokensOnly

NextTokens ==
    \/ CallUpdateTokensFromParams
    \/ CallUpdateOutputPathTokens

\* ============================================================ specifications
\* State of an operation that is not the one being run.
IdleDelete ==
    /\ InObjectsToDelete = << >> /\ InBatch = << >> /\ bHasOutList = FALSE
    /\ OutObjectsNotDeleted = << >> /\ OutInit = << >> /\ NumDeleted = 0
    /\ bGarbageCollectionRequired = FALSE /\ PackagesToCleanUp = {}
    /\ ProcessedObjects = {} /\ pcDel = "idle" /\ retDel = -1
    /\ validObjs = {} /\ validInit = {}
    /\ pkgState = [p \in Packages |-> "memory"]
    /\ outermost = [o \in Objects |-> "P1"]
    /\ attempts = [o \in Objects |-> 0] /\ hostCalls = [o \in Objects |-> 0]
    /\ reportedRef = {} /\ reportedUndo = {} /\ singleTrue = {} /\ hostDeleted = {}
    /\ gcCalls = 0 /\ cleanupCalls = << >>

IdleCopy ==
    /\ bPreviewOnly = FALSE /\ bPropagateChangesToArchetypeInstances = FALSE
    /\ bOnlyCopyEditOrInterpProperties = FALSE /\ bSkipInstanceOnlyProperties = FALSE
    /\ bCallPostEditChangeProperty = FALSE
    /\ ucsCreated = {} /\ owner = [i \in Instances |-> NoOwner]
    /\ registered = {} /\ registered0 = {} /\ transactional = {}
    /\ PropIndex = 0 /\ CopiedPropertyCount = 0 /\ countBefore = 0
    /\ ComponentInstancesToReregister = << >> /\ pcCopy = "idle" /\ retCopy = -1
    /\ Prop = PlainProperty /\ val0 = [c \in Components |-> "x"]
    /\ val = [c \in Components |-> "x"] /\ events = << >>

IdleFind ==
    /\ bWorldValid = FALSE /\ WorldActors = << >> /\ ActorType = "Actor"
    /\ BBoxes = << >> /\ bHasExclude = FALSE /\ ExcludeActors = {}
    /\ OutActors = << >> /\ OutActors0 = << >> /\ pcFind = "idle" /\ retFind = FALSE

IdleTokens ==
    /\ PackageMode = "CookToTemp" /\ TempCookFolder = << >> /\ BakeFolder = << >>
    /\ ObjectName = << >> /\ HoudiniAssetName = << >> /\ HoudiniAssetActorName = << >>
    /\ ObjectId = 0 /\ GeoId = 0 /\ PartId = 0 /\ SplitStr = << >>
    /\ ComponentGUID = << >> /\ PDGTOPNetworkName = << >> /\ PDGTOPNodeName = << >>
    /\ PDGWorkItemIndex = 0 /\ WorldPathName = << >>
    /\ OutTokens = << >> /\ OutTokens0 = << >> /\ pcTok = "idle"
    /\ calledTok = "none" /\ InPackageMode = "CookToTemp"

\* One call of SafeDeleteObjects.
DeleteCall == InitDelete /\ IdleCopy /\ IdleFind /\ IdleTokens

SpecDelete == DeleteCall /\ [][NextDelete]_vars

\* SafeDeleteObjects runs synchronously on the editor's main thread: once
\* called it keeps executing until it returns.
SpecDeleteFair == SpecDelete /\ WF_vars(NextDelete)

\* One call of CopyComponentProperties.
CopyCall == InitCopy /\ IdleDelete /\ IdleFind /\ IdleTokens

SpecCopy == CopyCall /\ [][NextCopy]_vars

\* One call of FindActorsOfClassInBounds.
FindCall == InitFind /\ IdleDelete /\ IdleCopy /\ IdleTokens

SpecFind == FindCall /\ [][NextFind]_vars

\* One call of UpdateTokensFromParams or of UpdateOutputPathTokens.
TokensCall == InitTokens /\ IdleDelete /\ IdleCopy /\ IdleFind

SpecTokens == TokensCall /\ [][NextTokens]_vars

\* Any one of the four calls.
Init == DeleteCall \/ CopyCall \/ FindCall \/ TokensCall

Next == NextDelete \/ NextCopy \/ NextFind \/ NextTokens

Spec == Init /\ [][Next]_vars

\* ------------------------------------------------------- properties: deletion
NoDuplicates(s) == \A i, j \in 1..Len(s) : i # j => s[i] # s[j]

\* Valid objects of the input array, as the call began.
BatchValid == Range(InBatch) \cap validInit

\* C1 (as claimed): an object the reference check reported as referenced, or
\* as referenced by undo, is never handed to DeleteSingleObject and
\* SafeDeleteSingleObject returns false for it.
C1_RefusedWhenReferencedOrUndo ==
    \A o \in reportedRef \cup reportedUndo :
        hostCalls[o] = 0 /\ o \notin singleTrue

\* C1 (amended): an object reported as referenced (bIsReferenced) is never
\* handed to DeleteSingleObject and SafeDeleteSingleObject returns false for
\* it; an object reported as referenced by undo only is handed to
\* DeleteSingleObject once, and SafeDeleteSingleObject returns true for it
\* exactly when the host deleted it.
C1_RefusedWhenReferenced ==
    /\ \A o \in reportedRef : hostCalls[o] = 0 /\ o \notin singleTrue
    /\ \A o \in reportedUndo \ reportedRef :
          /\ hostCalls[o] = 1
          /\ (o \in singleTrue <=> o \in hostDeleted)

C1_Witness ==
    /\ pcDel = "done"
    /\ \E o \in reportedRef : attempts[o] = 1
    /\ \E o \in (reportedUndo \ reportedRef) \cap singleTrue : attempts[o] = 1

\* C2: no CollectGarbage and no CleanupAfterSuccessfulDelete call happens
\* while objects of the batch remain to be processed; a batch triggers at
\* most one of the two, once; and none when nothing was deleted.
C2_OneDeferredCollection ==
    LET passes == gcCalls + Len(cleanupCalls) IN
    /\ passes > 0 => /\ InObjectsToDelete = <<>>
                     /\ Range(InBatch) \subseteq ProcessedObjects
                     /\ pcDel = "done"
    /\ passes <= 1
    /\ (pcDel = "done" /\ hostDeleted = {}) => passes = 0

C2_Witness ==
    /\ pcDel = "done"
    /\ bGarbageCollectionRequired
    /\ PackagesToCleanUp # {}
    /\ gcCalls = 0
    /\ Len(cleanupCalls) = 1

\* C3 (as claimed): on return, with an output list, every object of the
\* input array that was not deleted is in the list and no deleted one is.
C3_AllNotDeletedReported ==
    (pcDel = "done" /\ bHasOutList) =>
        \A o \in Range(InBatch) :
            (o \in hostDeleted) <=> (o \notin Range(OutObjectsNotDeleted))

\* C3 (amended): on return, with an output list, the call has appended to
\* the list, once each, exactly the valid objects of the input array that
\* were not deleted; entries that are not valid (null, pending kill) are
\* not reported; and no failure stops the call before it returns.
C3_ValidNotDeletedReported ==
    /\ (pcDel = "done" /\ bHasOutList) =>
          \E added \in SeqsUpTo(Objects, Cardinality(Objects)) :
              /\ OutObjectsNotDeleted = OutInit \o added
              /\ NoDuplicates(added)
              /\ Range(added) = BatchValid \ hostDeleted
    /\ pcDel = "loop" => ENABLED NextDelete

C3_Witness ==
    /\ pcDel = "done"
    /\ bHasOutList
    /\ \E o \in BatchValid \ hostDeleted : o \in Range(OutObjectsNotDeleted)
    /\ \E o \in BatchValid : o \in hostDeleted
    /\ \E x \in Range(InBatch) : x \notin validInit

\* C4: the call terminates with the input array empty, having called
\* SafeDeleteSingleObject exactly once for each distinct valid object of the
\* array (whatever happened to the others) and never for anything else, and
\* returns the number of distinct objects deleted.
C4_BestEffortTerminates ==
    <>[]( /\ pcDel = "done"
          /\ InObjectsToDelete = <<>>
          /\ \A o \in Objects : attempts[o] = (IF o \in BatchValid THEN 1 ELSE 0)
          /\ hostDeleted \subseteq BatchValid
          /\ retDel = Cardinality(hostDeleted) )

C4_Witness ==
    /\ pcDel = "done"
    /\ Len(InBatch) = MaxBatch
    /\ ~NoDuplicates(InBatch)
    /\ \E o \in BatchValid : o \notin hostDeleted /\ o = InBatch[Len(InBatch)]
    /\ \E o \in BatchValid : o \in hostDeleted


\* Packages handed to CleanupAfterSuccessfulDelete so far.
CleanedUp == UNION { cleanupCalls[k] : k \in 1..Len(cleanupCalls) }

\* C11: every package passed to CleanupAfterSuccessfulDelete is a valid
\* package that exists on disk and is the outermost package of an object
\* deleted in this batch; the package of a deleted object that is in memory
\* only, or not valid, is never passed and a garbage collection (direct, or
\* the one CleanupAfterSuccessfulDelete does) follows the deletion.
C11_OnlyDiskPackagesCleanedUp ==
    /\ \A p \in CleanedUp \cup PackagesToCleanUp :
          /\ p \in Packages
          /\ pkgState[p] = "disk"
          /\ \E o \in hostDeleted : outermost[o] = p
    /\ pcDel = "done" =>
          /\ \A o \in hostDeleted :
                (pkgState[outermost[o]] = "disk") <=> (outermost[o] \in CleanedUp)
          /\ (\E o \in hostDeleted : pkgState[outermost[o]] # "disk") =>
                gcCalls + Len(cleanupCalls) = 1

C11_Witness ==
    /\ pcDel = "done"
    /\ hostDeleted = {"o1", "o2"}
    /\ outermost["o1"] = "P1" /\ pkgState["P1"] = "invalid"
    /\ outermost["o2"] = "P2" /\ pkgState["P2"] = "disk"
    /\ cleanupCalls = << {"P2"} >>
    /\ gcCalls = 0

\* ------------------------------------------------- properties: property copy
\* Objects a property value was written on in the last iteration.
Written == { events[k][2] : k \in { n \in 1..Len(events) : events[n][1] = "Write" } }

\* Earlier(e, k): the call e was made before the k-th call of the iteration.
Earlier(e, k) == \E j \in 1..(k - 1) : events[j] = e

\* The property of the last iteration passed every copy filter of lines
\* 276-290, stated on the property's reflection data and on the Options.
PassedAllFilters ==
    /\ ~Prop.bTransient
    /\ val0["S"] # val0["T"]
    /\ ~Prop.bComponent
    /\ ~Prop.bUCSModified
    /\ ~Prop.bTransform
    /\ (bOnlyCopyEditOrInterpProperties => Prop.bEditOrInterp)
    /\ (bSkipInstanceOnlyProperties => ~Prop.bDisableEditOnTemplate)
    /\ Prop.bCanCopy

\* C5: after each iteration, the target was written only if the property is
\* not transient, differed between source and target and is no instanced
\* reference, and then holds the source's value; a transient, identical or
\* instanced-reference property left the target as it was; the count grew by
\* one exactly if the property passed all copy filters, starting from zero,
\* and the count is what the call returns.
C5_CopiesOnlyFilteredProperties ==
    /\ pcCopy = "next" =>
        /\ "T" \in Written =>
              /\ ~Prop.bTransient
              /\ val0["S"] # val0["T"]
              /\ ~Prop.bComponent
              /\ val["T"] = val0["S"]
        /\ (Prop.bTransient \/ val0["S"] = val0["T"] \/ Prop.bComponent) =>
              /\ "T" \notin Written
              /\ val["T"] = val0["T"]
        /\ CopiedPropertyCount = countBefore + (IF PassedAllFilters THEN 1 ELSE 0)
    /\ (pcCopy = "loop" /\ PropIndex = 0) => CopiedPropertyCount = 0
    /\ pcCopy = "loop" => countBefore = CopiedPropertyCount
    /\ pcCopy = "done" => retCopy = CopiedPropertyCount

C5_Witness ==
    /\ pcCopy = "next"
    /\ ~bPreviewOnly
    /\ PropIndex = 1
    /\ countBefore = 1
    /\ CopiedPropertyCount = 1
    /\ Prop.bTransient
    /\ val0["S"] # val0["T"]

\* C6: propagating and not previewing, after a property was
\* copied to the target, an instance was given the new value if and only
\* if it held the target's value before the copy, and otherwise kept its own.
C6_MatchingInstancesReceive ==
    (pcCopy = "next" /\ bPropagateChangesToArchetypeInstances /\ ~bPreviewOnly
       /\ "T" \in Written) =>
        \A i \in Instances :
            /\ (i \in Written) <=> (val0[i] = val0["T"])
            /\ i \in Written => val[i] = val0["S"]
            /\ i \notin Written => val[i] = val0[i]

\* What lines 306-336 and 346-382 do: propagating and not previewing, after a
\* property was copied to the target, an instance whose direct archetype is
\* the target was given the new value if and only if it held the target's
\* value before the copy; an instance based on the target through another
\* component was not given it, because the walk of lines 319-327 ends only
\* on a mismatch or in the checked cast at the top of the chain; every
\* instance not given the value kept its own, and the source was not written.
C6_DirectMatchingInstancesReceive ==
    (pcCopy = "next" /\ bPropagateChangesToArchetypeInstances /\ ~bPreviewOnly
       /\ "T" \in Written) =>
        /\ \A i \in Instances :
            /\ Archetype(i) = "T" => ((i \in Written) <=> (val0[i] = val0["T"]))
            /\ Archetype(i) # "T" => i \notin Written
            /\ i \in Written => val[i] = val0["S"]
            /\ i \notin Written => val[i] = val0[i]
        /\ "S" \notin Written
        /\ val["S"] = val0["S"]

C6_Witness ==
    /\ pcCopy = "next"
    /\ bPropagateChangesToArchetypeInstances
    /\ ~bPreviewOnly
    /\ "T" \in Written
    /\ "I1" \notin Written /\ val0["I1"] # val0["T"]
    /\ "I2" \in Written /\ val[ "I2"] = val0["S"]
    /\ "I3" \notin Written /\ val0["I3"] = val0["T"]

\* C7: not previewing, every write of an iteration comes after the undo
\* records it needs: for the target and for an instance the construction
\* script did not create, SetFlags(RF_Transactional) and Modify() on the
\* object itself; for an instance the construction script created and that
\* has an owner, Modify() on the owner.
C7_RecordedForUndoBeforeWrite ==
    ~bPreviewOnly =>
        \A k \in 1..Len(events) :
            events[k][1] = "Write" =>
                LET o == events[k][2] IN
                /\ (o = "T" \/ (o \in Instances /\ o \notin ucsCreated)) =>
                      /\ Earlier(<<"SetFlags", o>>, k)
                      /\ Earlier(<<"Modify", o>>, k)
                      /\ o \in transactional
                /\ (o \in Instances /\ o \in ucsCreated /\ owner[o] # NoOwner) =>
                      Earlier(<<"Modify", owner[o]>>, k)

C7_Witness ==
    /\ pcCopy = "next"
    /\ ~bPreviewOnly
    /\ Written = {"T", "I1", "I2"}
    /\ "I1" \in ucsCreated
    /\ "I2" \notin ucsCreated
    /\ \E k \in 1..Len(events) : events[k] = <<"Modify", "A1">>
    /\ \E k \in 1..Len(events) : events[k] = <<"Modify", "I2">>

\* C12: the archetype walk of lines 316-328 ends within the archetype chain:
\* it never steps past the top of the chain, where the checked cast of line
\* 326 meets an archetype that is no component and stops the editor.
C12_WalkEndsWithinChain == pcCopy # "fatal"

C12_Witness ==
    /\ pcCopy = "fatal"
    /\ bPropagateChangesToArchetypeInstances
    /\ Archetype("I3") = "I1"
    /\ val0["S"] # val0["T"]
    /\ val0["I3"] = val0["T"]
    /\ val0["I1"] = val0["T"]
    /\ val0["CDO"] = val0["T"]
    /\ WalkArchetypes(Archetype("I3"), "I3", val0) = "fatal"
    /\ "T" \notin Written

\* C13: while the call runs, the instances unregistered so far are exactly
\* those noted in ComponentInstancesToReregister, each noted once however
\* many of its properties were overwritten; when the call returns each of
\* them has been registered again exactly once, nothing else was registered,
\* and the components registered before the call are registered after it.
C13_UnregisteredRegisteredOnce ==
    /\ pcCopy \in {"loop", "next"} =>
          /\ NoDuplicates(ComponentInstancesToReregister)
          /\ Range(ComponentInstancesToReregister) = registered0 \ registered
          /\ registered \subseteq registered0
          /\ \A k \in 1..Len(events) :
                events[k][1] = "UnregisterComponent" =>
                    /\ events[k][2] \in Range(ComponentInstancesToReregister)
                    /\ \E n \in (k + 1)..Len(events) : events[n] = <<"Write", events[k][2]>>
    /\ pcCopy = "done" =>
          /\ NoDuplicates(events)
          /\ Range(events) =
                { <<"RegisterComponent", i>> : i \in Range(ComponentInstancesToReregister) }
          /\ registered = registered0

C13_Witness ==
    /\ pcCopy = "done"
    /\ bPropagateChangesToArchetypeInstances
    /\ retCopy = NumProps
    /\ registered0 = {"I1", "I2", "I3"}
    /\ ComponentInstancesToReregister = << "I1", "I2" >>
    /\ events = << <<"RegisterComponent", "I1">>, <<"RegisterComponent", "I2">> >>
    /\ registered = registered0

\* --------------------------------------------------- properties: actor query
\* The class, or a class it derives from, is the requested one.
RECURSIVE AncestorsOrSelf(_)
AncestorsOrSelf(c) ==
    IF c \notin ActorClasses THEN {} ELSE {c} \cup AncestorsOrSelf(SuperClass(c))

\* The two boxes share a point of the axis.
SharePoint(a, b) == \E x \in 0..6 : a.Min <= x /\ x <= a.Max /\ b.Min <= x /\ x <= b.Max

\* The class names of the universe that contain "BP_Sky_Sphere".
SkySphereClasses == {"BP_Sky_Sphere_C"}

\* What the claim asks of an actor that is returned.
Qualifies(a) ==
    /\ WorldActors[a].bValid
    /\ ActorType \in AncestorsOrSelf(WorldActors[a].cls)
    /\ ~(bHasExclude /\ a \in ExcludeActors)
    /\ WorldActors[a].cls \notin SkySphereClasses
    /\ \E i \in 1..Len(BBoxes) : SharePoint(WorldActors[a].bounds, BBoxes[i])

\* C8: for a valid world the call returns true and OutActors holds, once
\* each, exactly the valid actors of the requested class or a subclass that
\* are not excluded, are no sky sphere and whose bounds meet one of the
\* boxes; for an invalid world it returns false and leaves OutActors as passed.
C8_FindsExactlyActorsInBounds ==
    pcFind = "done" =>
        IF bWorldValid
        THEN /\ retFind = TRUE
             /\ NoDuplicates(OutActors)
             /\ Range(OutActors) = { a \in 1..Len(WorldActors) : Qualifies(a) }
        ELSE /\ retFind = FALSE
             /\ OutActors = OutActors0

C8_Witness ==
    /\ pcFind = "done"
    /\ bWorldValid
    /\ Len(WorldActors) = 2
    /\ WorldActors[1].cls = "BP_Sky_Sphere_C" /\ WorldActors[1].bounds = Box(3, 4)
    /\ WorldActors[2].cls = "MyMeshActor" /\ WorldActors[2].bounds = Box(3, 4)
    /\ ActorType = "StaticMeshActor"
    /\ BBoxes = << Box(1, 3), Box(1, 3) >>
    /\ OutActors0 = << 1 >>
    /\ OutActors = << 2 >>

\* -------------------------------------------------------- properties: tokens
\* The tokens the header documents for UpdateTokensFromParams (lines 180-184).
StandardTokens == {"out", "pkg", "world", "hda_name", "guid"}

\* C9: after UpdateTokensFromParams the map has an entry for each of the
\* documented standard tokens out, pkg, world, hda_name and guid.
C9_StandardTokensPresent ==
    (pcTok = "done" /\ calledTok = "UpdateTokensFromParams") =>
        StandardTokens \subseteq DOMAIN OutTokens

\* p is the path of folder: what precedes folder's last separator, or
\* nothing when folder has no separator.
IsPathOf(p, folder) ==
    IF \E i \in 1..Len(folder) : IsSlashOrBackslash(folder[i])
    THEN /\ Len(p) < Len(folder)
         /\ p = SubSeq(folder, 1, Len(p))
         /\ IsSlashOrBackslash(folder[Len(p) + 1])
         /\ \A i \in (Len(p) + 2)..Len(folder) : ~IsSlashOrBackslash(folder[i])
    ELSE p = << >>

\* C10: after either function, temp is the path of TempCookFolder and bake
\* the path of BakeFolder whatever the mode, and out_basepath is the path of
\* TempCookFolder (the temp token) for CookToTemp and CookToLevel and the
\* path of BakeFolder (the bake token) for Bake.
C10_ModeSelectsOutBasePath ==
    pcTok = "done" =>
        /\ {"temp", "bake", "out_basepath"} \subseteq DOMAIN OutTokens
        /\ IsPathOf(OutTokens["temp"], TempCookFolder)
        /\ IsPathOf(OutTokens["bake"], BakeFolder)
        /\ InPackageMode \in {"CookToTemp", "CookToLevel"} =>
              /\ IsPathOf(OutTokens["out_basepath"], TempCookFolder)
              /\ OutTokens["out_basepath"] = OutTokens["temp"]
        /\ InPackageMode = "Bake" =>
              /\ IsPathOf(OutTokens["out_basepath"], BakeFolder)
              /\ OutTokens["out_basepath"] = OutTokens["bake"]
        /\ calledTok = "UpdateTokensFromParams" => InPackageMode = PackageMode

C10_Witness ==
    /\ pcTok = "done"
    /\ calledTok = "UpdateOutputPathTokens"
    /\ PackageMode = "CookToTemp"
    /\ InPackageMode = "Bake"
    /\ "out_basepath" \in DOMAIN OutTokens0
    /\ OutTokens["out_basepath"] = << "/", "Game" >>
    /\ OutTokens["temp"] = << "/", "Game", "/", "Temp" >>
    /\ OutTokens["bake"] = << "/", "Game" >>

C9_Witness ==
    /\ pcTok = "done"
    /\ calledTok = "UpdateTokensFromParams"
    /\ DOMAIN OutTokens0 = {}
    /\ {"out", "world", "hda_name", "guid"} \subseteq DOMAIN OutTokens
    /\ "pkg" \notin DOMAIN OutTokens
====
